---------------------------- MODULE Spec2Model ----------------------------
(* A model of the nest-basic application: the cats controller and its     *)
(* request pipeline (logger middleware, roles guard, logging interceptor, *)
(* validation pipe, handler, exception filter), the in-memory cats        *)
(* service, the WebSocket gateway and the scheduled tasks.                *)
EXTENDS Integers, Sequences, FiniteSets, TLC

VARIABLES
    cats,            \* CatsService.cats: the in-memory record sequence
    task,            \* the event-loop task being run, or the last one run
    nreq,            \* number of HTTP requests received so far
    timeoutPending,  \* TasksService instances whose @Timeout has not fired
    created,         \* history: one entry per record appended by POST /cats
    unit,            \* a direct call of one method (as the unit tests make)
    sched            \* the timers of the scheduled tasks against the clock

vars == <<cats, task, nreq, timeoutPending, created, unit, sched>>

(* ------------------------------ bounds -------------------------------- *)

\* clock ticks (of five seconds) over one run of the scheduler
MaxTicks == 6
\* HTTP requests received over one run of the model
MaxReqs == 3
\* longest roles array handed to the guard when it is called directly
MaxRoles == 2

(* ------------------------- JavaScript values -------------------------- *)
(* A value carries its type tag. A string is a sequence of text chunks,   *)
(* so that concatenation and containment are computed; a number is held   *)
(* in tenths, so that 2.5 is a number and not an integer; an object maps  *)
(* every property name of the model to a value or to Absent.              *)

Absent == [t |-> "absent"]
None == [t |-> "none"]
Undefined == [t |-> "undefined"]
Null == [t |-> "null"]
Bool(b) == [t |-> "boolean", b |-> b]
Num(n) == [t |-> "number", tenths |-> n * 10]
Frac(tenths) == [t |-> "number", tenths |-> tenths]
Str(chunks) == [t |-> "string", s |-> chunks]
Arr(items) == [t |-> "array", items |-> items]

Props == {"name", "age", "roles", "statusCode", "message"}
EmptyProps == [p \in Props |-> Absent]
Obj(props) == [t |-> "object", props |-> props]
EmptyObject == Obj(EmptyProps)
Cat(name, age) == Obj([EmptyProps EXCEPT !.name = name, !.age = age])
User(roles) == Obj([EmptyProps EXCEPT !.roles = roles])

\* typeof v
TypeOf(v) ==
    IF v.t \in {"null", "array"} THEN "object" ELSE v.t

\* the truthiness of v, as `!v`, `&&` and `if` read it
Truthy(v) ==
    CASE v.t = "undefined" -> FALSE
      [] v.t = "null" -> FALSE
      [] v.t = "boolean" -> v.b
      [] v.t = "number" -> v.tenths # 0
      [] v.t = "string" -> v.s # <<>>
      [] OTHER -> TRUE

\* o.k : a property read (undefined when the property is missing, or when
\* o is a primitive that has no such property)
Get(o, k) ==
    IF o.t = "object" /\ o.props[k] # Absent THEN o.props[k] ELSE Undefined

\* roles.includes(x) on an array
Includes(arr, x) == \E i \in 1..Len(arr.items) : arr.items[i] = x

\* Number.isInteger(v)
IsInteger(v) == v.t = "number" /\ v.tenths % 10 = 0

\* haystack.includes(needle) on strings held as chunk sequences
Contains(hay, needle) ==
    \E i \in 0..(Len(hay.s) - Len(needle.s)) :
        SubSeq(hay.s, i + 1, i + Len(needle.s)) = needle.s

IsPrefix(s, t) == Len(s) <= Len(t) /\ SubSeq(t, 1, Len(s)) = s

(* ------------------------------ RolesGuard ---------------------------- *)

\* a request as the guard reads it: context.switchToHttp().getRequest()
Request(method, url, user, body) ==
    [method |-> method, url |-> url, user |-> user, body |-> body]

\* a guard that lets any caller with a non-empty roles list through
canActivateAnyRole(request) ==
    LET user == request.user IN
    IF ~Truthy(user) THEN user
    ELSE LET roles == Get(user, "roles") IN
         IF ~Truthy(roles) THEN roles
         ELSE Bool(Len(roles.items) > 0)

\* `return user && user.roles && user.roles.includes('admin')`:
\* a && b is a when a is falsy, else b
canActivate(request) ==
    LET user == request.user IN
    IF ~Truthy(user) THEN user
    ELSE LET roles == Get(user, "roles") IN
         IF ~Truthy(roles) THEN roles
         ELSE Bool(Includes(roles, Str(<<"admin">>)))

(* ---------------------------- ValidationPipe -------------------------- *)

HttpException(status, message) ==
    [tag |-> "HttpException", status |-> status, message |-> message]

\* new BadRequestException(message)
BadRequestException(message) == HttpException(400, message)

\* the exception the framework raises when a guard returns a falsy value
ForbiddenException == HttpException(403, Str(<<"Forbidden resource">>))

Returned(v) == [ok |-> TRUE, value |-> v, exception |-> None]
Thrown(e) == [ok |-> FALSE, value |-> None, exception |-> e]

ValidationMessage == Str(<<"Validation failed: ", "name is required">>)

\* a pipe that also requires an integer age, as CreateCatDto declares
transformDto(value) ==
    IF ~Truthy(value) \/ TypeOf(Get(value, "name")) # "string"
                      \/ ~IsInteger(Get(value, "age"))
    THEN Thrown(BadRequestException(ValidationMessage))
    ELSE Returned(value)

\* a pipe that only requires name to be present
transformLax(value) ==
    IF ~Truthy(value) \/ Get(value, "name") = Undefined
    THEN Thrown(BadRequestException(ValidationMessage))
    ELSE Returned(value)

\* ValidationPipe.transform(value, metadata)
transform(value) ==
    IF ~Truthy(value) \/ TypeOf(Get(value, "name")) # "string"
    THEN Thrown(BadRequestException(ValidationMessage))
    ELSE Returned(value)

(* ------------------------------ direct calls -------------------------- *)

RoleNames == {"admin", "user", "guest"}

RECURSIVE SeqsUpTo(_, _)
SeqsUpTo(S, n) ==
    IF n = 0 THEN {<<>>}
    ELSE LET shorter == SeqsUpTo(S, n - 1) IN
         shorter \cup {Append(s, x) : s \in shorter, x \in S}

RoleLists == {Arr(s) : s \in SeqsUpTo({Str(<<r>>) : r \in RoleNames}, MaxRoles)}

UnitUsers ==
    {Undefined, Null} \cup {User(r) : r \in {Absent, Null} \cup RoleLists}

UnitContexts == {Request("POST", "/cats", u, EmptyObject) : u \in UnitUsers}

UnitNames ==
    {Absent, Null, Num(123), Bool(TRUE), Str(<<>>), Str(<<"Tom">>),
     Str(<<"Whiskers">>), Arr(<<>>)}

UnitAges == {Absent, Null, Num(3), Frac(25), Str(<<"x">>)}

UnitValues ==
    {Undefined, Null, Bool(FALSE), Num(0), Num(7), Str(<<>>), Str(<<"Tom">>),
     Arr(<<>>)}
    \cup {Cat(n, a) : n \in UnitNames, a \in UnitAges}

NoCall == [fn |-> "none", arg |-> None, done |-> FALSE, out |-> None]

UnitCalls ==
    {[fn |-> "canActivate", arg |-> c, done |-> FALSE, out |-> None] :
        c \in UnitContexts}
    \cup {[fn |-> "transform", arg |-> v, done |-> FALSE, out |-> None] :
        v \in UnitValues}

CallCanActivate ==
    /\ unit.fn = "canActivate" /\ ~unit.done
    /\ unit' = [unit EXCEPT !.done = TRUE, !.out = canActivate(unit.arg)]
    /\ UNCHANGED <<cats, task, nreq, timeoutPending, created, sched>>

CallTransform ==
    /\ unit.fn = "transform" /\ ~unit.done
    /\ unit' = [unit EXCEPT !.done = TRUE, !.out = transform(unit.arg)]
    /\ UNCHANGED <<cats, task, nreq, timeoutPending, created, sched>>

(* ------------------------ CatsGateway, CatsService -------------------- *)

\* a gateway that echoes the payload alone
handleMessageBare(data) == data

\* CatsGateway.handleMessage: `Received: ${data}`
handleMessage(data) == Str(<<"Received: ">> \o data.s)

\* the initial value of CatsService.cats
InitialCats == <<Cat(Str(<<"Tom">>), Num(3))>>

RECURSIVE Reverse(_)
Reverse(seq) ==
    IF seq = <<>> THEN <<>> ELSE Append(Reverse(Tail(seq)), Head(seq))

\* a service that lists the newest record first
getCatsNewestFirst(store) == Reverse(store)

\* CatsService.getCats()
getCats(store) == store

\* a service that puts the new record first
createCatFirst(store, cat) == [store |-> <<cat>> \o store, result |-> cat]

\* a service that keeps only the newest record
createCatOnly(store, cat) == [store |-> <<cat>>, result |-> cat]

\* an append made on a stale copy of the store: earlier appends are lost
createCatStale(store, cat) ==
    [store |-> Append(InitialCats, cat), result |-> cat]

\* CatsService.createCat(cat): push, then return the argument
createCat(store, cat) == [store |-> Append(store, cat), result |-> cat]

(* ------------------------------ the routes ---------------------------- *)
(* What the decorators of CatsController, CatsModule.configure and the    *)
(* APP_INTERCEPTOR provider of AppModule attach to each route.            *)

Routes ==
    {[method |-> "GET", url |-> "/cats"],
     [method |-> "POST", url |-> "/cats"],
     [method |-> "POST", url |-> "/cats/validation-pipe"]}

RouteOf(req) == [method |-> req.method, url |-> req.url]

\* the controller method bound to the route
HandlerOf(route) ==
    CASE route = [method |-> "GET", url |-> "/cats"] -> "getAll"
      [] route = [method |-> "POST", url |-> "/cats"] -> "create"
      [] route = [method |-> "POST", url |-> "/cats/validation-pipe"] ->
            "createWithValidation"

\* a controller with the guard on both creation routes
GuardsOfEveryPost(route) ==
    IF HandlerOf(route) \in {"create", "createWithValidation"}
    THEN <<"RolesGuard">> ELSE <<>>

\* @UseGuards
GuardsOf(route) ==
    IF HandlerOf(route) = "create" THEN <<"RolesGuard">> ELSE <<>>

\* @UsePipes, applied to the handler's one @Body() parameter
PipesOf(route) ==
    IF HandlerOf(route) \in {"create", "createWithValidation"}
    THEN <<"ValidationPipe">> ELSE <<>>

\* the interceptors around a route, outermost first: the application-wide
\* one (APP_INTERCEPTOR), then the controller's (@UseInterceptors)
InterceptorsOf(route) == <<"app", "controller">>

\* the framework's default status of a handler that returns
DefaultStatus(route) == IF route.method = "POST" THEN 201 ELSE 200

Rep(x, n) == [i \in 1..n |-> x]

\* a pipeline that validates before it authorizes
StagesPipeFirst(route) ==
    <<"logger">>
    \o Rep("pipe", Len(PipesOf(route)))
    \o Rep("guard", Len(GuardsOf(route)))
    \o Rep("before", Len(InterceptorsOf(route)))
    \o <<"handler">>
    \o Rep("after", Len(InterceptorsOf(route)))
    \o <<"respond">>

\* a pipeline that runs the handler before it authorizes and validates
StagesHandlerFirst(route) ==
    <<"logger", "handler">>
    \o Rep("guard", Len(GuardsOf(route)))
    \o Rep("before", Len(InterceptorsOf(route)))
    \o Rep("pipe", Len(PipesOf(route)))
    \o Rep("after", Len(InterceptorsOf(route)))
    \o <<"respond">>

\* the stages a request to the route goes through when nothing rejects
Stages(route) ==
    <<"logger">>
    \o Rep("guard", Len(GuardsOf(route)))
    \o Rep("before", Len(InterceptorsOf(route)))
    \o Rep("pipe", Len(PipesOf(route)))
    \o <<"handler">>
    \o Rep("after", Len(InterceptorsOf(route)))
    \o <<"respond">>

(* --------------------- interceptor, filter, middleware ---------------- *)

Log(text) == [ev |-> "log", text |-> text]
Call(name) == [ev |-> "call", text |-> <<name>>]

\* LoggerMiddleware.use: console.log(`[Request] ${req.method} ${req.url}`)
LoggerLine(req) == Log(<<"[Request] ", req.method, " ", req.url>>)

\* LoggingInterceptor.intercept, before next.handle()
BeforeLine == Log(<<"Before...">>)

\* LoggingInterceptor.intercept, the tap on the handler's value
AfterLine == Log(<<"After...">>)

\* an interceptor that maps the value to what console.log returns
tapAsMap(value) == Undefined

\* pipe(tap(...)): the value goes on unchanged
tap(value) == value

\* HttpExceptionFilter.catch: response.status(status).json({statusCode, message})
catch(exception) ==
    [status |-> exception.status,
     body |-> Obj([EmptyProps EXCEPT !.statusCode = Num(exception.status),
                                     !.message = exception.message])]

\* an error that is no HttpException: it has no status
PlainError(message) == [tag |-> "Error", status |-> 0, message |-> message]

\* a filter declared with an empty @Catch()
CatchesEverything(exception) == TRUE

\* @Catch(HttpException): the exceptions the filter is given
Catches(exception) == exception.tag = "HttpException"

\* what HttpExceptionFilter does with an exception raised under it: the
\* rewritten response, or the exception going on to the framework untouched
applyFilter(exception) ==
    IF Catches(exception)
    THEN [handled |-> TRUE, status |-> catch(exception).status,
          body |-> catch(exception).body, rethrown |-> None]
    ELSE [handled |-> FALSE, status |-> 0, body |-> None,
          rethrown |-> exception]

UnitExceptions ==
    {HttpException(st, m) :
        st \in {400, 403, 404, 500},
        m \in {ValidationMessage, Str(<<"Forbidden resource">>), Str(<<>>)}}
    \cup {PlainError(m) : m \in {Str(<<"boom">>), Str(<<>>)}}

FilterCalls ==
    {[fn |-> "filter", arg |-> e, done |-> FALSE, out |-> None] :
        e \in UnitExceptions}

\* filter.catch applied as the framework applies it
CallFilter ==
    /\ unit.fn = "filter" /\ ~unit.done
    /\ unit' = [unit EXCEPT !.done = TRUE, !.out = applyFilter(unit.arg)]
    /\ UNCHANGED <<cats, task, nreq, timeoutPending, created, sched>>

\* class-validator's @IsString() and @IsInt()
IsString(value) == value.t = "string"

IsInt(value) == value.t = "number" /\ IsInteger(value)

\* a CreateCatDto whose only decorated property is name
validateNameOnly(dto) ==
    IF IsString(dto.props.name) THEN <<>> ELSE <<"name">>

\* validate(dto) for a CreateCatDto: the properties whose constraint fails,
\* in the order the class declares them
validate(dto) ==
    (IF IsString(dto.props.name) THEN <<>> ELSE <<"name">>)
    \o (IF IsInt(dto.props.age) THEN <<>> ELSE <<"age">>)

ValidateCalls ==
    {[fn |-> "validate", arg |-> Cat(n, a), done |-> FALSE, out |-> None] :
        n \in UnitNames, a \in UnitAges}

CallValidate ==
    /\ unit.fn = "validate" /\ ~unit.done
    /\ unit' = [unit EXCEPT !.done = TRUE, !.out = validate(unit.arg)]
    /\ UNCHANGED <<cats, task, nreq, timeoutPending, created, sched>>

(* ------------------------------ the event loop ------------------------ *)
(* One task runs at a time and runs to its end: from the middleware to    *)
(* the response a request awaits only settled promises, so no other       *)
(* request, message or timer callback runs in between.                    *)

IdleTask ==
    [kind |-> "idle", req |-> None, pc |-> "done", i |-> 0, trace |-> <<>>,
     pre |-> <<>>, guardRet |-> None, arg |-> None, result |-> None,
     out |-> None, exception |-> None, status |-> 0, response |-> None]

LoopIdle == task.pc = "done"

\* the TasksService instances: AppModule's own provider and TasksModule's
TaskInstances == {"AppModule", "TasksModule"}

\* request.user is whatever an upstream layer attached; nothing in the
\* application sets it
Users ==
    {Undefined, User(Absent), User(Arr(<<Str(<<"user">>)>>)),
     User(Arr(<<Str(<<"admin">>)>>))}

Whiskers == Cat(Str(<<"Whiskers">>), Num(2))

Bodies(route) ==
    IF route.method = "GET" THEN {EmptyObject}
    ELSE {Whiskers, Cat(Str(<<"Tom">>), Absent), Cat(Num(123), Str(<<"x">>))}

Payloads == {Str(<<"ping">>), Str(<<"test">>), Str(<<>>)}

Stage ==
    IF task.kind = "http" /\ task.pc = "run"
    THEN Stages(RouteOf(task.req))[task.i] ELSE "none"

Advance(t, event) ==
    [t EXCEPT !.i = t.i + 1, !.trace = Append(t.trace, event)]

Reject(t, event, exception) ==
    [t EXCEPT !.pc = "filter", !.exception = exception,
              !.trace = Append(t.trace, event)]

\* a request reaches the router
Receive ==
    /\ LoopIdle /\ nreq < MaxReqs
    /\ \E route \in Routes : \E user \in Users : \E body \in Bodies(route) :
          task' = [IdleTask EXCEPT
                     !.kind = "http",
                     !.req = Request(route.method, route.url, user, body),
                     !.pc = "run", !.i = 1, !.pre = cats]
    /\ nreq' = nreq + 1
    /\ UNCHANGED <<cats, timeoutPending, created, unit, sched>>

\* LoggerMiddleware.use: log, then next()
LoggerUse ==
    /\ Stage = "logger"
    /\ task' = Advance(task, LoggerLine(task.req))
    /\ UNCHANGED <<cats, nreq, timeoutPending, created, unit, sched>>

\* RolesGuard.canActivate; a falsy result is a ForbiddenException
GuardCheck ==
    /\ Stage = "guard"
    /\ LET ret == canActivate(task.req) IN
       task' = IF Truthy(ret)
               THEN [Advance(task, Call("canActivate")) EXCEPT !.guardRet = ret]
               ELSE [Reject(task, Call("canActivate"), ForbiddenException)
                        EXCEPT !.guardRet = ret]
    /\ UNCHANGED <<cats, nreq, timeoutPending, created, unit, sched>>

\* LoggingInterceptor.intercept up to next.handle()
InterceptBefore ==
    /\ Stage = "before"
    /\ task' = Advance(task, BeforeLine)
    /\ UNCHANGED <<cats, nreq, timeoutPending, created, unit, sched>>

\* ValidationPipe.transform on the request body
PipeTransform ==
    /\ Stage = "pipe"
    /\ LET out == transform(task.req.body) IN
       task' = IF out.ok
               THEN [Advance(task, Call("transform")) EXCEPT !.arg = out.value]
               ELSE Reject(task, Call("transform"), out.exception)
    /\ UNCHANGED <<cats, nreq, timeoutPending, created, unit, sched>>

\* CatsController.getAll
HandleGetAll ==
    /\ Stage = "handler" /\ HandlerOf(RouteOf(task.req)) = "getAll"
    /\ LET r == Arr(getCats(cats)) IN
       task' = [Advance(task, Call("getAll")) EXCEPT !.result = r, !.out = r]
    /\ UNCHANGED <<cats, nreq, timeoutPending, created, unit, sched>>

\* CatsController.create and CatsController.createWithValidation
HandleCreate ==
    /\ Stage = "handler"
    /\ HandlerOf(RouteOf(task.req)) \in {"create", "createWithValidation"}
    /\ LET r == createCat(cats, task.arg) IN
       /\ cats' = r.store
       /\ task' = [Advance(task, Call(HandlerOf(RouteOf(task.req)))) EXCEPT
                     !.result = r.result, !.out = r.result]
    /\ created' = Append(created,
                     [pre |-> cats, rec |-> task.arg,
                      by |-> HandlerOf(RouteOf(task.req))])
    /\ UNCHANGED <<nreq, timeoutPending, unit, sched>>

\* LoggingInterceptor.intercept: the tap runs on the handler's value
InterceptAfter ==
    /\ Stage = "after"
    /\ task' = [Advance(task, AfterLine) EXCEPT !.out = tap(task.out)]
    /\ UNCHANGED <<cats, nreq, timeoutPending, created, unit, sched>>

\* the framework sends the handler's result with the route's status
Respond ==
    /\ Stage = "respond"
    /\ task' = [task EXCEPT !.pc = "done",
                            !.trace = Append(task.trace, Call("send")),
                            !.status = DefaultStatus(RouteOf(task.req)),
                            !.response = task.out]
    /\ UNCHANGED <<cats, nreq, timeoutPending, created, unit, sched>>

\* HttpExceptionFilter.catch (@UseFilters on the controller)
FilterCatch ==
    /\ task.kind = "http" /\ task.pc = "filter"
    /\ Catches(task.exception)
    /\ LET out == applyFilter(task.exception) IN
       task' = [task EXCEPT !.pc = "done",
                            !.trace = Append(task.trace, Call("catch")),
                            !.status = out.status,
                            !.response = out.body]
    /\ UNCHANGED <<cats, nreq, timeoutPending, created, unit, sched>>

\* a WebSocket client emits "message"
WsMessage ==
    /\ LoopIdle
    /\ \E p \in Payloads :
          task' = [IdleTask EXCEPT !.kind = "ws", !.req = p,
                                   !.trace = <<Call("handleMessage")>>,
                                   !.response = handleMessage(p)]
    /\ UNCHANGED <<cats, nreq, timeoutPending, created, unit, sched>>

TimerTask(kind, inst, line) ==
    [IdleTask EXCEPT !.kind = kind, !.req = [instance |-> inst],
                     !.trace = <<Log(<<line>>)>>]

\* TasksService.handleCron, at second 45 of a minute
FireCron ==
    /\ LoopIdle
    /\ \E inst \in TaskInstances :
          task' = TimerTask("cron", inst, "Called every minute at 45 seconds")
    /\ UNCHANGED <<cats, nreq, timeoutPending, created, unit, sched>>

\* a handleInterval that empties the store back to its first record
FireIntervalResetting ==
    /\ LoopIdle
    /\ \E inst \in TaskInstances :
          task' = TimerTask("interval", inst, "Called every 10 seconds")
    /\ cats' = InitialCats
    /\ UNCHANGED <<nreq, timeoutPending, created, unit, sched>>

\* TasksService.handleInterval, every 10 seconds
FireInterval ==
    /\ LoopIdle
    /\ \E inst \in TaskInstances :
          task' = TimerTask("interval", inst, "Called every 10 seconds")
    /\ UNCHANGED <<cats, nreq, timeoutPending, created, unit, sched>>

\* TasksService.handleTimeout, once per registered instance
FireTimeout ==
    /\ LoopIdle
    /\ \E inst \in timeoutPending :
          /\ task' = TimerTask("timeout", inst, "Called once after 5 seconds")
          /\ timeoutPending' = timeoutPending \ {inst}
    /\ UNCHANGED <<cats, nreq, created, unit, sched>>

(* ------------------------ the scheduler's clock ----------------------- *)

\* time is counted in ticks of five seconds
\* @Timeout(5000)
TimeoutDelay == 1
\* @Interval(10000)
IntervalPeriod == 2
\* @Cron('45 * * * * *'): second 45 of every minute of twelve ticks
CronSecond == 9
MinuteTicks == 12

\* the decorated methods of every TasksService instance
Callbacks ==
    {[kind |-> k, inst |-> inst] :
        k \in {"cron", "interval", "timeout"}, inst \in TaskInstances}

HandlerLine(kind) ==
    CASE kind = "cron" -> "Called every minute at 45 seconds"
      [] kind = "interval" -> "Called every 10 seconds"
      [] kind = "timeout" -> "Called once after 5 seconds"

\* the first tick after now at which the wall clock shows second 45
NextCron(boot, now) ==
    CHOOSE t \in (now + 1)..(now + MinuteTicks) :
        (boot + t) % MinuteTicks = CronSecond

\* the timers as registered at start, the process starting boot ticks into
\* a minute
Clocked(boot) ==
    [now |-> 0, boot |-> boot, armed |-> Callbacks,
     deadline |-> [cb \in Callbacks |->
                     CASE cb.kind = "timeout" -> TimeoutDelay
                       [] cb.kind = "interval" -> IntervalPeriod
                       [] cb.kind = "cron" -> NextCron(boot, 0)],
     running |-> {}]

\* the clock is not observed
Unclocked ==
    [now |-> 0, boot |-> 0, armed |-> {},
     deadline |-> [cb \in Callbacks |-> 0], running |-> {}]

\* the timer of the callback has expired
IsDue(cb) == cb \in sched.armed /\ sched.deadline[cb] <= sched.now

\* a runtime that runs an expired timer's callback on a thread of its own
CanStartOverlapping(cb) == IsDue(cb)

\* the event loop takes an expired timer when no callback is running
CanStart(cb) == sched.running = {} /\ IsDue(cb)

\* five seconds pass; a free event loop runs expired timers first
Tick ==
    /\ sched.now < MaxTicks
    /\ sched.running # {} \/ \A cb \in Callbacks : ~IsDue(cb)
    /\ sched' = [sched EXCEPT !.now = @ + 1]
    /\ UNCHANGED <<cats, task, nreq, timeoutPending, created, unit>>

\* the timer's callback is invoked: a repeating timer is armed again,
\* counted from this invocation
StartHandler(cb) ==
    /\ CanStart(cb)
    /\ sched' = [sched EXCEPT
          !.running = @ \cup {cb},
          !.armed = IF cb.kind = "timeout" THEN @ \ {cb} ELSE @,
          !.deadline[cb] =
              CASE cb.kind = "timeout" -> @
                [] cb.kind = "interval" -> sched.now + IntervalPeriod
                [] cb.kind = "cron" -> NextCron(sched.boot, sched.now)]
    /\ task' = TimerTask(cb.kind, cb.inst, HandlerLine(cb.kind))
    /\ timeoutPending' = IF cb.kind = "timeout"
                         THEN timeoutPending \ {cb.inst} ELSE timeoutPending
    /\ UNCHANGED <<cats, nreq, created, unit>>

\* the callback returns
EndHandler(cb) ==
    /\ cb \in sched.running
    /\ sched' = [sched EXCEPT !.running = @ \ {cb}]
    /\ UNCHANGED <<cats, task, nreq, timeoutPending, created, unit>>

InitTasks ==
    /\ cats = InitialCats
    /\ task = IdleTask
    /\ nreq = 0
    /\ timeoutPending = TaskInstances
    /\ created = <<>>
    /\ unit = NoCall
    /\ sched \in {Clocked(boot) : boot \in 0..(MinuteTicks - 1)}

NextTasks ==
    \/ Tick
    \/ \E cb \in Callbacks : StartHandler(cb)
    \/ \E cb \in Callbacks : EndHandler(cb)

SpecTasks == InitTasks /\ [][NextTasks]_vars

(* ------------------------------ the application ----------------------- *)

Init ==
    /\ cats = InitialCats
    /\ task = IdleTask
    /\ nreq = 0
    /\ timeoutPending = TaskInstances
    /\ created = <<>>
    /\ unit = NoCall
    /\ sched = Unclocked

Next ==
    \/ Receive
    \/ LoggerUse
    \/ GuardCheck
    \/ InterceptBefore
    \/ PipeTransform
    \/ HandleGetAll
    \/ HandleCreate
    \/ InterceptAfter
    \/ Respond
    \/ FilterCatch
    \/ WsMessage
    \/ FireCron
    \/ FireInterval
    \/ FireTimeout

Spec == Init /\ [][Next]_vars

\* the methods called directly, each on one argument
InitUnit ==
    /\ cats = InitialCats
    /\ task = IdleTask
    /\ nreq = 0
    /\ timeoutPending = TaskInstances
    /\ created = <<>>
    /\ unit \in UnitCalls \cup FilterCalls \cup ValidateCalls
    /\ sched = Unclocked

NextUnit ==
    \/ CallCanActivate
    \/ CallTransform
    \/ CallFilter
    \/ CallValidate

SpecUnit == InitUnit /\ [][NextUnit]_vars

(* ------------------------------- claims ------------------------------- *)

\* the caller's user carries a roles list that contains "admin"
HasAdminRole(request) ==
    /\ request.user.t = "object"
    /\ request.user.props.roles.t = "array"
    /\ \E i \in 1..Len(request.user.props.roles.items) :
          request.user.props.roles.items[i] = Str(<<"admin">>)

\* the value has a string-typed name field
HasStringName(value) ==
    value.t = "object" /\ value.props.name.t = "string"

\* the value is a record {name: string, age: integer}
IsCatRecord(value) ==
    /\ HasStringName(value)
    /\ value.props.age.t = "number" /\ value.props.age.tenths % 10 = 0

IsHttp(method, url) ==
    task.kind = "http" /\ task.req.method = method /\ task.req.url = url

Answered == task.kind = "http" /\ task.pc = "done"

\* C1: RolesGuard.canActivate returns the boolean true for a context whose
\* user carries a roles list containing "admin", and the boolean false for
\* every other context (no user, no roles field, roles without "admin").
C1_GuardReturnsBoolean ==
    (unit.fn = "canActivate" /\ unit.done) =>
        unit.out = Bool(HasAdminRole(unit.arg))

\* C2: for every input with a string-typed name field, whatever its other
\* fields, ValidationPipe.transform returns that same value and raises
\* nothing.
C2_ValidReturnedUnchanged ==
    (unit.fn = "transform" /\ unit.done /\ HasStringName(unit.arg)) =>
        /\ unit.out.ok
        /\ unit.out.value = unit.arg
        /\ unit.out.exception = None

C2_Witness ==
    /\ unit.fn = "transform" /\ unit.done
    /\ HasStringName(unit.arg)
    /\ unit.arg.props.age \in {Absent, Frac(25)}
    /\ unit.out.ok

\* C3: for every input that lacks a string-typed name (absent or null value,
\* missing name, name of another type), ValidationPipe.transform returns no
\* value and fails with a bad-request condition (status 400) whose message
\* contains "name is required".
C3_InvalidRejected ==
    (unit.fn = "transform" /\ unit.done /\ ~HasStringName(unit.arg)) =>
        /\ ~unit.out.ok
        /\ unit.out.value = None
        /\ unit.out.exception.tag = "HttpException"
        /\ unit.out.exception.status = 400
        /\ Contains(unit.out.exception.message, Str(<<"name is required">>))

C3_Witness ==
    /\ unit.fn = "transform" /\ unit.done
    /\ unit.arg.t = "object" /\ unit.arg.props.name = Num(123)
    /\ ~unit.out.ok

\* C4: a POST /cats by a caller with role admin and a body {name: string,
\* age: integer} is answered with status 201 and appends the body to the
\* store as it was before the request; every GET /cats answered afterwards
\* returns a sequence that starts with the store as it was before that POST
\* followed by that record.
C4_AdminPostAppends ==
    /\ (Answered /\ IsHttp("POST", "/cats") /\ HasAdminRole(task.req)
            /\ IsCatRecord(task.req.body)) =>
          /\ task.status = 201
          /\ cats = Append(task.pre, task.req.body)
          /\ \E k \in 1..Len(created) :
                created[k] = [pre |-> task.pre, rec |-> task.req.body,
                              by |-> "create"]
    /\ (Answered /\ IsHttp("GET", "/cats")) =>
          \A k \in 1..Len(created) :
             created[k].by = "create" =>
                /\ task.response.t = "array"
                /\ IsPrefix(Append(created[k].pre, created[k].rec),
                            task.response.items)

C4_Witness ==
    /\ Answered /\ IsHttp("GET", "/cats")
    /\ \E k \in 1..Len(created) :
          /\ created[k].by = "create" /\ created[k].rec = Whiskers
          /\ Len(created[k].pre) > 1
    /\ task.status = 200

\* C5: a POST /cats whose body has a non-string name and a non-integer age
\* is answered with status 400 and leaves the record sequence as it was.
C5_InvalidPostIs400 ==
    (Answered /\ IsHttp("POST", "/cats")
        /\ ~HasStringName(task.req.body)
        /\ ~IsInteger(Get(task.req.body, "age"))) =>
        /\ task.status = 400
        /\ cats = task.pre

\* C6: a POST /cats with a valid body {name: string, age: integer} and no
\* caller identity at all is answered with status 201 and a body equal to
\* the submitted record.
C6_AnonymousPostIs201 ==
    (Answered /\ IsHttp("POST", "/cats") /\ task.req.user = Undefined
        /\ IsCatRecord(task.req.body)) =>
        /\ task.status = 201
        /\ task.response = task.req.body

\* the place of a trace event in the order the claim states (0: an event
\* the claim does not order)
StageRank(event) ==
    CASE event.ev = "log" /\ event.text[1] = "[Request] " -> 1
      [] event = Call("canActivate") -> 2
      [] event = Call("transform") -> 3
      [] event = Call("create") -> 4
      [] event = AfterLine -> 5
      [] OTHER -> 0

RanksIn(trace) == {StageRank(trace[i]) : i \in 1..Len(trace)}

\* C7: for one POST /cats request the stages run in the order request
\* logger, authorization check, input validator, handler, observer's
\* "after" phase; a stage that rejects stops every later stage, and the
\* tagged failure it raised is caught by the error wrapper, which rewrites
\* the response.
C7_PipelineOrder ==
    IsHttp("POST", "/cats") =>
        /\ \A i, j \in 1..Len(task.trace) :
              (i < j /\ StageRank(task.trace[i]) > 0
                     /\ StageRank(task.trace[j]) > 0) =>
                 \/ StageRank(task.trace[i]) < StageRank(task.trace[j])
                 \/ task.trace[i] = AfterLine /\ task.trace[j] = AfterLine
        /\ \A i \in 1..Len(task.trace) :
              StageRank(task.trace[i]) > 1 =>
                 StageRank(task.trace[i]) - 1 \in RanksIn(SubSeq(task.trace, 1, i))
        /\ (task.pc = "done" /\ task.exception = None) =>
              RanksIn(task.trace) \ {0} = 1..5
        /\ task.exception # None =>
              /\ task.exception.tag = "HttpException"
              /\ RanksIn(task.trace) \ {0} =
                    IF task.exception.status = 403 THEN 1..2 ELSE 1..3
              /\ cats = task.pre
        /\ (task.pc = "done" /\ task.exception # None) =>
              /\ task.trace[Len(task.trace)] = Call("catch")
              /\ task.status = task.exception.status
              /\ Get(task.response, "statusCode") = Num(task.exception.status)
              /\ Get(task.response, "message") = task.exception.message

C7_Witness ==
    /\ Answered /\ IsHttp("POST", "/cats")
    /\ Truthy(task.guardRet)
    /\ task.status = 400
    /\ task.trace[Len(task.trace)] = Call("catch")

IsHandlerCall(event) ==
    event \in {Call("getAll"), Call("create"), Call("createWithValidation")}

\* C8: for every handled request, "Before..." is logged before the handler
\* is invoked and "After..." after the handler has produced its result;
\* the result delivered to the caller is the handler's result; no
\* "After..." is logged when the handler is not reached or fails.
C8_ObserverAroundHandler ==
    task.kind = "http" =>
        /\ \A j \in 1..Len(task.trace) :
              IsHandlerCall(task.trace[j]) =>
                 /\ \E i \in 1..(j - 1) : task.trace[i] = BeforeLine
                 /\ \A i \in j..Len(task.trace) : task.trace[i] # BeforeLine
        /\ \A i \in 1..Len(task.trace) :
              task.trace[i] = AfterLine =>
                 /\ \E j \in 1..(i - 1) : IsHandlerCall(task.trace[j])
                 /\ task.result # None
        /\ (task.pc = "done" /\ task.exception = None) =>
              /\ \E i \in 1..Len(task.trace) : task.trace[i] = AfterLine
              /\ task.response = task.result
              /\ task.result =
                    IF task.req.method = "GET" THEN Arr(cats) ELSE task.req.body
        /\ task.exception # None =>
              \A i \in 1..Len(task.trace) : task.trace[i] # AfterLine

C8_Witness ==
    /\ Answered /\ task.status = 201
    /\ \E i, j, k \in 1..Len(task.trace) :
          /\ i < j /\ j < k
          /\ task.trace[i] = BeforeLine
          /\ IsHandlerCall(task.trace[j])
          /\ task.trace[k] = AfterLine
    /\ task.response = task.req.body

\* C9: for every string payload p, a message on the WebSocket event
\* "message" yields exactly the reply "Received: " followed by p, and
\* handling it changes neither the record store nor any other state.
C9_EchoReply ==
    [][(task' # task /\ task'.kind = "ws") =>
          /\ task'.req.t = "string"
          /\ task'.response = Str(<<"Received: ">> \o task'.req.s)
          /\ cats' = cats
          /\ nreq' = nreq
          /\ timeoutPending' = timeoutPending
          /\ created' = created]_vars

C9_Witness ==
    /\ task.kind = "ws"
    /\ task.req = Str(<<"ping">>)
    /\ task.response = Str(<<"Received: ", "ping">>)
    /\ Len(cats) > 1

\* C10: the record store starts as the one-record sequence
\* [{name: "Tom", age: 3}], and every step (GET /cats, POST /cats,
\* POST /cats/validation-pipe, a WebSocket message, a trigger firing) leaves
\* the earlier sequence a prefix of the new one: no record is removed,
\* replaced or reordered.
C10_AppendOnly ==
    /\ cats = <<Cat(Str(<<"Tom">>), Num(3))>>
    /\ [][IsPrefix(cats, cats')]_vars

C10_Witness ==
    /\ Len(cats) = 3
    /\ cats[1] = Cat(Str(<<"Tom">>), Num(3))
    /\ task.kind = "timeout"
    /\ \E k \in 1..Len(created) : created[k].by = "createWithValidation"

\* the records appended so far, in the order their handlers ran
RECURSIVE Recs(_)
Recs(history) ==
    IF history = <<>> THEN <<>>
    ELSE Append(Recs(SubSeq(history, 1, Len(history) - 1)),
                history[Len(history)].rec)

HandlerCalled ==
    \E i \in 1..Len(task.trace) : IsHandlerCall(task.trace[i])

C14_FilterRewritesTagged ==
    (unit.fn = "filter" /\ unit.done) =>
        IF unit.arg.tag = "HttpException"
        THEN /\ unit.out.handled
             /\ unit.out.status = unit.arg.status
             /\ unit.out.body =
                   Obj([EmptyProps EXCEPT
                          !.statusCode = Num(unit.arg.status),
                          !.message = unit.arg.message])
             /\ unit.out.rethrown = None
        ELSE /\ ~unit.out.handled
             /\ unit.out.body = None
             /\ unit.out.rethrown = unit.arg

C14_Witness ==
    /\ unit.fn = "filter" /\ unit.done
    /\ unit.arg = PlainError(Str(<<"boom">>))
    /\ unit.out.rethrown = unit.arg

\* C15: with the application wired as AppModule declares it, handleTimeout
\* is invoked once over the life of the process and never again.
C15_TimeoutFiresOnce ==
    Cardinality(TaskInstances \ timeoutPending) <= 1

\* C16: validate on a CreateCatDto reports no errors exactly when name is a
\* string and age is an integer; with name missing the first error names
\* the property name; with a string name and a non-integer age the first
\* error names the property age.
C16_DeclarativeValidator ==
    (unit.fn = "validate" /\ unit.done) =>
        /\ (unit.out = <<>>) <=> IsCatRecord(unit.arg)
        /\ unit.arg.props.name = Absent =>
              (unit.out # <<>> /\ unit.out[1] = "name")
        /\ (HasStringName(unit.arg) /\ ~IsCatRecord(unit.arg)) =>
              (unit.out # <<>> /\ unit.out[1] = "age")

C16_Witness ==
    /\ unit.fn = "validate" /\ unit.done
    /\ unit.arg = Cat(Str(<<"Tom">>), Str(<<"x">>))
    /\ unit.out = <<"age">>

\* C17: after any sequence of requests on the HTTP surface, every record in
\* the store has a string name and an integer age.
C17_StoredRecordsWellTyped ==
    \A i \in 1..Len(cats) : IsCatRecord(cats[i])

Failing == task.kind = "http" /\ task.exception # None

\* C18: a request that fails affects only itself: it never reaches a
\* handler and leaves the store as it found it, so the store is the initial
\* records followed by the records of the requests that were accepted, a
\* request that is answered normally gets the answer its own body and the
\* store it found determine, no request touches the triggers, and whenever
\* the event loop is free every trigger that is still armed can fire.
C18_FailureIsLocal ==
    /\ [](Failing => (cats = task.pre /\ ~HandlerCalled))
    /\ [](cats = InitialCats \o Recs(created))
    /\ []((Answered /\ ~Failing) =>
             task.response = IF task.req.method = "GET"
                             THEN Arr(task.pre) ELSE task.req.body)
    /\ [](LoopIdle =>
             /\ ENABLED FireCron
             /\ ENABLED FireInterval
             /\ (timeoutPending # {} => ENABLED FireTimeout))
    /\ [][task'.kind = "http" => timeoutPending' = timeoutPending]_vars

C18_Witness ==
    /\ Answered /\ Failing /\ task.status = 400
    /\ nreq = 3 /\ Len(created) = 1
    /\ timeoutPending = {"TasksModule"}

C20_NoAppendLost ==
    /\ [](/\ cats = InitialCats \o Recs(created)
          /\ Len(cats) = Len(InitialCats) + Len(created)
          /\ \A k \in 1..Len(created) :
                created[k].pre =
                    InitialCats \o Recs(SubSeq(created, 1, k - 1)))
    /\ []((Answered /\ task.status = 201) =>
             /\ created # <<>>
             /\ created[Len(created)].rec = task.req.body
             /\ cats = Append(task.pre, task.req.body))
    /\ []((IsHttp("GET", "/cats") /\ Answered) =>
             IsPrefix(task.response.items, cats))
    /\ [][IsPrefix(cats, cats') /\ Len(cats') <= Len(cats) + 1]_vars

C20_Witness ==
    /\ Len(created) = 3 /\ Len(cats) = 4
    /\ created[1].by = "create" /\ created[2].by = "createWithValidation"
    /\ created[1].rec # created[2].rec
    /\ Answered /\ task.status = 201

IsFiring(t) == t.kind \in {"cron", "interval", "timeout"}

Count(trace, event) ==
    Cardinality({i \in 1..Len(trace) : trace[i] = event})

\* C22: with the observer registered application-wide in AppModule and on
\* CatsController, exactly one "Before..." and exactly one "After..." are
\* logged for each successfully handled request.
C22_ObserverWrapsOnce ==
    (Answered /\ ~Failing) =>
        /\ Count(task.trace, BeforeLine) = 1
        /\ Count(task.trace, AfterLine) = 1

=============================================================================
